---- MODULE Spec2Model ----
(***************************************************************************)
(* ib_flex2ledger: a model of parse_trades_from_flex and of the functions  *)
(* it calls (src/ib_flex2ledger.py).                                       *)
(*                                                                         *)
(* Representation.                                                         *)
(*  - An ISO date string is a sequence of number fields: <<day>> for a     *)
(*    date ("2024-01-15"), <<day, time>> for a date with a time of day.    *)
(*    Strings are compared field by field (Less), as Python compares the   *)
(*    strings of one fixed date format character by character.             *)
(*  - A datetime is a number of ticks; fromisoformat turns a string into   *)
(*    it, a date alone being midnight of its day. datetime.min is tick 0,  *)
(*    before every day a statement can carry.                              *)
(*  - A symbol is a sequence of characters; split cuts it at the dots.     *)
(*  - A dict is the sequence of its items in insertion order.              *)
(*  - The ledger output (stdout) is the sequence `out` of printed parts:   *)
(*    the header of a transaction, then its postings with the closing      *)
(*    blank line. The diagnostic channel (stderr) is `err`.                *)
(*  - An uncaught exception ends the run in pc = "raised".                 *)
(* Every record of a statement carries the attributes the code reads, the  *)
(* amounts being numbers: float() and the attribute look-ups do not fail.  *)
(***************************************************************************)
EXTENDS Integers, Sequences, FiniteSets, TLC

VARIABLES
    statement,                     \* the parsed FlexStatement: Trades, CashTransactions
    new_only,                      \* option --new-only
    ignore_deposits_withdrawals,   \* option --ignore-deposits-withdrawals
    hledger,                       \* what the hledger subprocess gave
    pc,                            \* position of the run
    latest_transaction_date,       \* local of parse_trades_from_flex
    trades,                        \* local: the sorted trades
    t_idx,                         \* position of the trade loop
    cash_transactions,             \* local: the sorted items of the grouping
    c_idx,                         \* position of the group loop
    out,                           \* stdout
    err,                           \* stderr
    arg,                           \* argument of a function applied on its own
    ret                            \* its result

vars == <<statement, new_only, ignore_deposits_withdrawals, hledger, pc,
          latest_transaction_date, trades, t_idx, cash_transactions, c_idx,
          out, err, arg, ret>>

----------------------------------------------------------------------------
(* Bounds of the model *)

MaxTrades == 2        \* trades of a statement, specification Spec
MaxRecords == 3       \* trades and cash events of a statement, specification SpecCash
MaxGroupInput == 4    \* records given to group_cash_transactions, SpecGroup
MaxGroupLen == 4      \* records of a group given to the classifier, SpecClassify

\* the days a statement and the ledger can carry
Days == 1..2
\* times of day: 0 is midnight, 1 is later in the day
TimesOfDay == {0, 1}
TicksPerDay == Cardinality(TimesOfDay)
Conids == {1, 2}

----------------------------------------------------------------------------
(* Dates and strings *)

datetime_min == 0

fromisoformat(s) == s[1] * TicksPerDay + (IF Len(s) > 1 THEN s[2] ELSE 0)

\* Python's < on two sort keys. A key is a sequence of fields: a string is
\* compared field by field, a shorter string being less than the ones it
\* starts; a datetime is the key of one field <<ticks>>.
Less(a, b) ==
    \E k \in 1..(Len(a) + 1) :
        /\ \A j \in 1..(k - 1) : j <= Len(b) /\ a[j] = b[j]
        /\ \/ k = Len(a) + 1 /\ Len(b) >= k
           \/ k <= Len(a) /\ k <= Len(b) /\ a[k] < b[k]

\* sorted(s, key=...): stable and ascending; keys[i] is the key of s[i]
sorted(s, keys) ==
    LET n == Len(s)
        before(j, i) == Less(keys[j], keys[i]) \/ (~Less(keys[i], keys[j]) /\ j < i)
        pos(i) == Cardinality({j \in 1..n : before(j, i)}) + 1
    IN  [k \in 1..n |-> s[CHOOSE i \in 1..n : pos(i) = k]]

\* str.split("."): the parts between the dots
RECURSIVE split(_)
split(s) ==
    IF \A i \in 1..Len(s) : s[i] # "."
    THEN <<s>>
    ELSE LET d == CHOOSE i \in 1..Len(s) :
                      s[i] = "." /\ \A j \in 1..(i - 1) : s[j] # "."
         IN  <<SubSeq(s, 1, d - 1)>> \o split(SubSeq(s, d + 1, Len(s)))

----------------------------------------------------------------------------
(* Printed parts *)

TradeRef(trade) == <<"trade", trade.id>>
CashRef(transaction) == <<"cash", transaction.id>>

Part(part, tx, recs) == [part |-> part, tx |-> tx, recs |-> recs]

transaction_header(trade, tx) == <<Part("header", tx, <<TradeRef(trade)>>)>>

fees_to_ledger(trade, tx) == <<Part("fees", tx, <<TradeRef(trade)>>)>>

\* the printed parts of a call, and whether it raised
Printed(lines) == [lines |-> lines, raised |-> FALSE]
Raised(lines) == [lines |-> lines, raised |-> TRUE]

stock_trade_to_ledger(trade) ==
    Printed(transaction_header(trade, "stock_trade")
            \o <<Part("postings", "stock_trade", <<TradeRef(trade)>>)>>
            \o fees_to_ledger(trade, "stock_trade"))

\* fx_trade_to_ledger printing the header before it splits the symbol
fx_trade_header_first(trade) ==
    LET parts == split(trade.symbol)
    IN  IF Len(parts) # 2
        THEN Raised(transaction_header(trade, "fx_trade"))
        ELSE Printed(transaction_header(trade, "fx_trade")
                     \o <<Part("postings", "fx_trade", <<TradeRef(trade)>>)>>
                     \o fees_to_ledger(trade, "fx_trade"))

fx_trade_to_ledger(trade) ==
    LET parts == split(trade.symbol)
    IN  IF Len(parts) # 2
        THEN Raised(<<>>)      \* ValueError from the unpacking, line 76
        ELSE Printed(transaction_header(trade, "fx_trade")
                     \o <<Part("postings", "fx_trade", <<TradeRef(trade)>>)>>
                     \o fees_to_ledger(trade, "fx_trade"))

----------------------------------------------------------------------------
(* Dicts as sequences of items *)

Item(k, v) == [key |-> k, value |-> v]
HasKey(d, k) == \E i \in 1..Len(d) : d[i].key = k
IndexOf(d, k) == CHOOSE i \in 1..Len(d) : d[i].key = k
Get(d, k) == d[IndexOf(d, k)].value
\* d[k].append(x), d being a plain dict that holds k or a defaultdict(list)
Append2(d, k, x) ==
    IF HasKey(d, k)
    THEN [d EXCEPT ![IndexOf(d, k)].value = Append(@, x)]
    ELSE Append(d, Item(k, <<x>>))
\* the dict after d[k] was read, d being a defaultdict(list)
Touch(d, k) == IF HasKey(d, k) THEN d ELSE Append(d, Item(k, <<>>))
\* del d[k]
Del(d, k) == SelectSeq(d, LAMBDA it : it.key # k)

\* reduce_fn with the timestamp left out of the key
reduce_fn_conid_only(hash, transaction) ==
    LET key == <<transaction.conid, <<>>>>
    IN  Append2(hash, key, transaction)

reduce_fn(hash, transaction) ==
    LET key == <<transaction.conid, transaction.dateTime>>
    IN  Append2(hash, key, transaction)

RECURSIVE reduce(_, _)
reduce(s, initial) ==
    IF s = <<>> THEN initial
    ELSE reduce(Tail(s), reduce_fn(initial, Head(s)))

group_cash_transactions(cash) == reduce(cash, <<>>)

RECURSIVE bucket_by_type(_, _)
bucket_by_type(group, grouped) ==
    IF group = <<>> THEN grouped
    ELSE bucket_by_type(Tail(group), Append2(grouped, Head(group).type, Head(group)))

Single(key, transaction) == [type |-> key, transaction |-> transaction]

RECURSIVE singles(_)
singles(grouped) ==
    IF grouped = <<>> THEN <<>>
    ELSE [i \in 1..Len(Head(grouped).value) |->
             Single(Head(grouped).key, Head(grouped).value[i])]
         \o singles(Tail(grouped))

\* the classifier without the two del statements of lines 112 and 113
classify_without_del(transaction_group) ==
    LET grouped == bucket_by_type(transaction_group, <<>>)
        g1 == Touch(grouped, "Dividends")
        one_dividend == Len(Get(g1, "Dividends")) = 1
        g2 == IF one_dividend THEN Touch(g1, "Withholding Tax") ELSE g1
        paired == one_dividend /\ Len(Get(g2, "Withholding Tax")) = 1
    IN  IF paired
        THEN <<[type |-> "dividend_with_withholding",
                dividend |-> Get(g2, "Dividends")[1],
                tax |-> Get(g2, "Withholding Tax")[1]]>>
             \o singles(g2)
        ELSE singles(g2)

\* the classifier pairing on "at least one" of each type
classify_pairs_first_of_several(transaction_group) ==
    LET grouped == bucket_by_type(transaction_group, <<>>)
        g1 == Touch(grouped, "Dividends")
        some_dividend == Len(Get(g1, "Dividends")) >= 1
        g2 == IF some_dividend THEN Touch(g1, "Withholding Tax") ELSE g1
        paired == some_dividend /\ Len(Get(g2, "Withholding Tax")) >= 1
    IN  IF paired
        THEN <<[type |-> "dividend_with_withholding",
                dividend |-> Get(g2, "Dividends")[1],
                tax |-> Get(g2, "Withholding Tax")[1]]>>
             \o singles(Del(Del(g2, "Dividends"), "Withholding Tax"))
        ELSE singles(g2)

classify_cash_transactions_group(transaction_group) ==
    LET grouped == bucket_by_type(transaction_group, <<>>)
        g1 == Touch(grouped, "Dividends")
        one_dividend == Len(Get(g1, "Dividends")) = 1
        g2 == IF one_dividend THEN Touch(g1, "Withholding Tax") ELSE g1
        paired == one_dividend /\ Len(Get(g2, "Withholding Tax")) = 1
    IN  IF paired
        THEN <<[type |-> "dividend_with_withholding",
                dividend |-> Get(g2, "Dividends")[1],
                tax |-> Get(g2, "Withholding Tax")[1]]>>
             \o singles(Del(Del(g2, "Dividends"), "Withholding Tax"))
        ELSE singles(g2)

----------------------------------------------------------------------------
(* The cash events printed *)

OwnArm == {"Dividends", "Broker Interest Received", "Broker Interest Paid",
           "Other Fees", "Deposits/Withdrawals"}

CashLines(arm, recs) ==
    <<Part("header", arm, recs), Part("postings", arm, recs)>>

\* the loop body without the test of the flag, lines 298 and 299
cash_event_flag_unread(transaction, ignore) ==
    CASE transaction.type = "dividend_with_withholding" ->
             CashLines("dividend_with_withholding",
                       <<CashRef(transaction.dividend), CashRef(transaction.tax)>>)
      [] transaction.type \in OwnArm ->
             CashLines(transaction.type, <<CashRef(transaction.transaction)>>)
      [] OTHER ->
             CashLines("other", <<CashRef(transaction.transaction)>>)

\* one pass of the loop over the classified events, lines 241 to 323
cash_event_to_ledger(transaction, ignore) ==
    CASE transaction.type = "dividend_with_withholding" ->
             CashLines("dividend_with_withholding",
                       <<CashRef(transaction.dividend), CashRef(transaction.tax)>>)
      [] transaction.type = "Deposits/Withdrawals" ->
             IF ignore THEN <<>>       \* continue
             ELSE CashLines("Deposits/Withdrawals", <<CashRef(transaction.transaction)>>)
      [] transaction.type \in OwnArm \ {"Deposits/Withdrawals"} ->
             CashLines(transaction.type, <<CashRef(transaction.transaction)>>)
      [] OTHER ->                      \* case _
             CashLines("other", <<CashRef(transaction.transaction)>>)

RECURSIVE print_events(_, _)
print_events(grouped_transactions, ignore) ==
    IF grouped_transactions = <<>> THEN <<>>
    ELSE cash_event_to_ledger(Head(grouped_transactions), ignore)
         \o print_events(Tail(grouped_transactions), ignore)

----------------------------------------------------------------------------
(* The ledger inspection *)

HledgerRaised == [raised |-> TRUE, rows |-> <<>>]
HledgerRows(rows) == [raised |-> FALSE, rows |-> rows]
NotRun == [raised |-> FALSE, rows |-> <<"not run">>]

\* the ledger inspection giving the latest possible date when it fails
get_latest_gives_max_on_failure(h) ==
    IF h.raised \/ h.rows = <<>>
    THEN fromisoformat(<<3>>)
    ELSE fromisoformat(h.rows[Len(h.rows)])

get_latest_transaction_date_from_hledger(h) ==
    IF h.raised \/ h.rows = <<>>
    THEN datetime_min                      \* except Exception
    ELSE fromisoformat(h.rows[Len(h.rows)])

----------------------------------------------------------------------------
(* parse_trades_from_flex, step by step, on the record of a run *)

Run(st, no, idw, h) ==
    [statement |-> st, new_only |-> no, ignore_deposits_withdrawals |-> idw,
     hledger |-> h, pc |-> "start", latest_transaction_date |-> datetime_min,
     trades |-> <<>>, t_idx |-> 1, cash_transactions |-> <<>>, c_idx |-> 1,
     out |-> <<>>, err |-> <<>>]

\* key=lambda trade: datetime.fromisoformat(trade.get("dateTime")), line 214
trade_key(trade) == <<fromisoformat(trade.dateTime)>>
\* key=lambda item: item[0][1], line 235: the dateTime string of the group
item_key(item) == item.key[2]

sorted_trades(ts) == sorted(ts, [i \in DOMAIN ts |-> trade_key(ts[i])])

\* the items left in the order of the dict
items_unsorted(items) == items

sorted_items(items) == sorted(items, [i \in DOMAIN items |-> item_key(items[i])])

Diag(msg, about) == [msg |-> msg, about |-> about]

\* lines 190 to 215; h is what hledger gives when it is run
parse_start(r, h) ==
    LET latest == IF r.new_only
                  THEN get_latest_transaction_date_from_hledger(h)
                  ELSE datetime_min
    IN  [r EXCEPT
           !.hledger = h,
           !.latest_transaction_date = latest,
           !.err = @ \o <<Diag("Trades for", <<>>), Diag("Period", <<>>)>>
                     \o (IF r.new_only
                         THEN <<Diag("Dropping transactions older than", latest)>>
                         ELSE <<>>),
           !.trades = sorted_trades(r.statement.Trades),
           !.t_idx = 1,
           !.pc = "trades"]

\* the trade is dropped by the filter of line 217
trade_dropped(trade, latest) == fromisoformat(trade.tradeDate) <= latest

\* the loop body raising on an unknown assetCategory
trade_loop_body_unknown_raises(r) ==
    LET trade == r.trades[r.t_idx]
        next == [r EXCEPT !.t_idx = @ + 1]
    IN  IF trade_dropped(trade, r.latest_transaction_date)
        THEN next
        ELSE CASE trade.assetCategory = "CASH" ->
                    LET res == fx_trade_to_ledger(trade)
                    IN  IF res.raised
                        THEN [r EXCEPT !.out = @ \o res.lines, !.pc = "raised"]
                        ELSE [next EXCEPT !.out = @ \o res.lines]
               [] trade.assetCategory = "STK" ->
                    [next EXCEPT !.out = @ \o stock_trade_to_ledger(trade).lines]
               [] OTHER ->
                    [r EXCEPT !.pc = "raised"]

\* one pass of the loop over the trades, lines 216 to 230
trade_loop_body(r) ==
    LET trade == r.trades[r.t_idx]
        next == [r EXCEPT !.t_idx = @ + 1]
    IN  IF trade_dropped(trade, r.latest_transaction_date)
        THEN next
        ELSE CASE trade.assetCategory = "CASH" ->
                    LET res == fx_trade_to_ledger(trade)
                    IN  IF res.raised
                        THEN [r EXCEPT !.out = @ \o res.lines, !.pc = "raised"]
                        ELSE [next EXCEPT !.out = @ \o res.lines]
               [] trade.assetCategory = "STK" ->
                    [next EXCEPT !.out = @ \o stock_trade_to_ledger(trade).lines]
               [] OTHER ->
                    [next EXCEPT !.err = @ \o
                        <<Diag("Dropping trade with unknown assetCategory",
                               TradeRef(trade)),
                          Diag("trade", TradeRef(trade))>>]

\* lines 232 to 235
begin_cash(r) ==
    [r EXCEPT
       !.cash_transactions =
           sorted_items(group_cash_transactions(r.statement.CashTransactions)),
       !.c_idx = 1,
       !.pc = "cash"]

\* the group is dropped by the filter of line 237
group_dropped(key, latest) == fromisoformat(key[2]) <= latest

\* one pass of the loop over the groups, lines 236 to 323
group_loop_body(r) ==
    LET item == r.cash_transactions[r.c_idx]
        next == [r EXCEPT !.c_idx = @ + 1]
    IN  IF group_dropped(item.key, r.latest_transaction_date)
        THEN next
        ELSE [next EXCEPT !.out = @ \o
                 print_events(classify_cash_transactions_group(item.value),
                              r.ignore_deposits_withdrawals)]

return(r) == [r EXCEPT !.pc = "done"]

Terminal == {"done", "raised"}

\* the step of a run that is not over
step(r, h) ==
    CASE r.pc = "start" -> parse_start(r, h)
      [] r.pc = "trades" /\ r.t_idx <= Len(r.trades) -> trade_loop_body(r)
      [] r.pc = "trades" /\ r.t_idx > Len(r.trades) -> begin_cash(r)
      [] r.pc = "cash" /\ r.c_idx <= Len(r.cash_transactions) -> group_loop_body(r)
      [] r.pc = "cash" /\ r.c_idx > Len(r.cash_transactions) -> return(r)

\* the run to its end
RECURSIVE run_to_end(_, _)
run_to_end(r, h) == IF r.pc \in Terminal THEN r ELSE run_to_end(step(r, h), h)

----------------------------------------------------------------------------
(* The state machine *)

Cur ==
    [statement |-> statement, new_only |-> new_only,
     ignore_deposits_withdrawals |-> ignore_deposits_withdrawals,
     hledger |-> hledger, pc |-> pc,
     latest_transaction_date |-> latest_transaction_date,
     trades |-> trades, t_idx |-> t_idx,
     cash_transactions |-> cash_transactions, c_idx |-> c_idx,
     out |-> out, err |-> err]

Becomes(r) ==
    /\ statement' = r.statement
    /\ new_only' = r.new_only
    /\ ignore_deposits_withdrawals' = r.ignore_deposits_withdrawals
    /\ hledger' = r.hledger
    /\ pc' = r.pc
    /\ latest_transaction_date' = r.latest_transaction_date
    /\ trades' = r.trades
    /\ t_idx' = r.t_idx
    /\ cash_transactions' = r.cash_transactions
    /\ c_idx' = r.c_idx
    /\ out' = r.out
    /\ err' = r.err
    /\ UNCHANGED <<arg, ret>>

\* what hledger can give: it cannot run, it prints no row, its last row has a date
HledgerOutcomes(days) ==
    {HledgerRaised, HledgerRows(<<>>)} \cup {HledgerRows(<<<<d>>>>) : d \in days}

Start ==
    /\ pc = "start"
    /\ \E h \in (IF new_only THEN HledgerOutcomes(Days) ELSE {NotRun}) :
           Becomes(parse_start(Cur, h))

TradeStep ==
    /\ pc = "trades"
    /\ t_idx <= Len(trades)
    /\ Becomes(trade_loop_body(Cur))

BeginCash ==
    /\ pc = "trades"
    /\ t_idx > Len(trades)
    /\ Becomes(begin_cash(Cur))

GroupStep ==
    /\ pc = "cash"
    /\ c_idx <= Len(cash_transactions)
    /\ Becomes(group_loop_body(Cur))

Return ==
    /\ pc = "cash"
    /\ c_idx > Len(cash_transactions)
    /\ Becomes(return(Cur))

----------------------------------------------------------------------------
(* The statements *)

SymStock == <<"A", "C">>
SymFx == <<"E", ".", "U">>
SymNoDot == <<"E", "U">>

TradeKinds ==
    {[assetCategory |-> "STK", symbol |-> SymStock],
     [assetCategory |-> "CASH", symbol |-> SymFx],
     [assetCategory |-> "CASH", symbol |-> SymNoDot],
     [assetCategory |-> "OPT", symbol |-> SymStock]}

CashTypes == {"Dividends", "Withholding Tax", "Deposits/Withdrawals", "Other Fees",
              "Broker Interest Received", "Broker Interest Paid", "Commission Adjustments"}

\* the Trade elements in document order, from their attributes; id is the
\* position in the document
Trades(a) ==
    [i \in DOMAIN a |->
        [id |-> i, dateTime |-> <<a[i][1], a[i][2]>>, tradeDate |-> <<a[i][1]>>,
         assetCategory |-> a[i][3].assetCategory, symbol |-> a[i][3].symbol]]
TradeAttributes(days, kinds, n) == [1..n -> days \X TimesOfDay \X kinds]

\* the DETAIL CashTransaction elements in document order, from their attributes
CashTransactions(a) ==
    [i \in DOMAIN a |->
        [id |-> i, conid |-> a[i][1], dateTime |-> <<a[i][2], a[i][3]>>,
         type |-> a[i][4]]]
CashAttributes(days, times, conids, types, n) ==
    [1..n -> conids \X days \X times \X types]

InitOn(trade_elements, cash_elements) ==
    /\ statement = [Trades |-> trade_elements, CashTransactions |-> cash_elements]
    /\ hledger = NotRun
    /\ pc = "start"
    /\ latest_transaction_date = datetime_min
    /\ trades = <<>>
    /\ t_idx = 1
    /\ cash_transactions = <<>>
    /\ c_idx = 1
    /\ out = <<>>
    /\ err = <<>>
    /\ arg = <<>>
    /\ ret = <<>>

\* statements of up to MaxTrades trades of every kind and at most one cash event,
\* a dividend, with incremental mode on or off
Init ==
    /\ \E n \in 0..MaxTrades, m \in 0..1 :
           \E a \in TradeAttributes(Days, TradeKinds, n),
              b \in CashAttributes(Days, TimesOfDay, {1}, {"Dividends"}, m) :
               InitOn(Trades(a), CashTransactions(b))
    /\ new_only \in BOOLEAN
    /\ ignore_deposits_withdrawals = FALSE

Next == Start \/ TradeStep \/ BeginCash \/ GroupStep \/ Return

Spec == Init /\ [][Next]_vars

\* statements of one day with up to MaxRecords records, stock trades and cash
\* events, with the flag set or not, incremental mode off
InitCash ==
    /\ \E n \in 0..MaxRecords :
           \E m \in 0..(MaxRecords - n) :
               \E a \in TradeAttributes({1}, {[assetCategory |-> "STK",
                                               symbol |-> SymStock]}, n),
                  b \in CashAttributes({1}, TimesOfDay, Conids,
                                       {"Dividends", "Withholding Tax",
                                        "Deposits/Withdrawals"}, m) :
                   \* a conid is compared for equality only: the first one seen is 1
                   /\ IF m = 0 THEN TRUE ELSE b[1][1] = 1
                   /\ InitOn(Trades(a), CashTransactions(b))
    /\ new_only = FALSE
    /\ ignore_deposits_withdrawals \in BOOLEAN

SpecCash == InitCash /\ [][Next]_vars

----------------------------------------------------------------------------
(* The pure functions applied on their own *)

InitCall(argument) ==
    /\ statement = [Trades |-> <<>>, CashTransactions |-> <<>>]
    /\ new_only = FALSE
    /\ ignore_deposits_withdrawals = FALSE
    /\ hledger = NotRun
    /\ pc = "call"
    /\ latest_transaction_date = datetime_min
    /\ trades = <<>>
    /\ t_idx = 1
    /\ cash_transactions = <<>>
    /\ c_idx = 1
    /\ out = <<>>
    /\ err = <<>>
    /\ arg = argument
    /\ ret = <<>>

Returns(value) ==
    /\ pc = "call"
    /\ pc' = "returned"
    /\ ret' = value
    /\ UNCHANGED <<statement, new_only, ignore_deposits_withdrawals, hledger,
                   latest_transaction_date, trades, t_idx, cash_transactions,
                   c_idx, out, err, arg>>

\* the records of up to MaxGroupInput cash events of two conids and two timestamps
InitGroup ==
    \E n \in 0..MaxGroupInput :
        \E b \in CashAttributes({1}, TimesOfDay, Conids, {"Dividends"}, n) :
            InitCall(CashTransactions(b))
GroupCall == Returns(group_cash_transactions(arg))
SpecGroup == InitGroup /\ [][GroupCall]_vars

\* the groups the classifier is given: not empty, of one key, of every type
InitClassify ==
    \E n \in 1..MaxGroupLen :
        \E b \in CashAttributes({1}, {1}, {1}, CashTypes, n) :
            InitCall(CashTransactions(b))
ClassifyCall == Returns(classify_cash_transactions_group(arg))
SpecClassify == InitClassify /\ [][ClassifyCall]_vars

----------------------------------------------------------------------------
(* Properties of group_cash_transactions (SpecGroup) *)

KeyOf(rec) == <<rec.conid, rec.dateTime>>
Range(seq) == {seq[i] : i \in DOMAIN seq}

\* the places of the records in the groups of a grouping
GroupSlots(groups) ==
    UNION {{<<g, k>> : k \in 1..Len(groups[g].value)} : g \in 1..Len(groups)}

\* C5: group_cash_transactions is a partition of its input: each record is in
\* exactly one group, two records are in one group if and only if they have the
\* same (conid, dateTime), no group is empty, and the records of a group are in
\* the order of the input.
C5_GroupingIsPartition ==
    pc = "returned" =>
        /\ \A i \in DOMAIN arg :
               Cardinality({p \in GroupSlots(ret) :
                               ret[p[1]].value[p[2]] = arg[i]}) = 1
        /\ \A p \in GroupSlots(ret) : ret[p[1]].value[p[2]] \in Range(arg)
        /\ \A g \in DOMAIN ret : ret[g].value # <<>>
        /\ \A p, q \in GroupSlots(ret) :
               (KeyOf(ret[p[1]].value[p[2]]) = KeyOf(ret[q[1]].value[q[2]]))
                   <=> (p[1] = q[1])
        /\ \A p, q \in GroupSlots(ret) :
               (p[1] = q[1] /\ p[2] < q[2])
                   => ret[p[1]].value[p[2]].id < ret[q[1]].value[q[2]].id

\* records of two keys, interleaved in the input
C5_Witness ==
    /\ pc = "returned"
    /\ Len(ret) >= 2
    /\ \E g \in DOMAIN ret :
           /\ Len(ret[g].value) >= 2
           /\ ret[g].value[2].id > ret[g].value[1].id + 1

----------------------------------------------------------------------------
(* Properties of classify_cash_transactions_group (SpecClassify) *)

IsPair(event) == event.type = "dividend_with_withholding"
EventRecords(event) ==
    IF "transaction" \in DOMAIN event
    THEN <<event.transaction>>
    ELSE <<event.dividend, event.tax>>

EventSlots(events) ==
    UNION {{<<e, k>> : k \in 1..Len(EventRecords(events[e]))} : e \in 1..Len(events)}

CountOfType(group, type) == Cardinality({i \in DOMAIN group : group[i].type = type})

PairsIn(events) == {e \in DOMAIN events : IsPair(events[e])}

\* C3: the classification is exhaustive and exclusive: each record of the group
\* is in exactly one classified event, and no event holds a record that is not
\* in the group.
C3_ClassificationExhaustiveExclusive ==
    pc = "returned" =>
        /\ \A i \in DOMAIN arg :
               Cardinality({p \in EventSlots(ret) :
                               EventRecords(ret[p[1]])[p[2]] = arg[i]}) = 1
        /\ \A p \in EventSlots(ret) : EventRecords(ret[p[1]])[p[2]] \in Range(arg)

\* a pair and a record beside it
C3_Witness ==
    /\ pc = "returned"
    /\ PairsIn(ret) # {}
    /\ Len(arg) >= 3

\* C4: a dividend_with_withholding event is emitted if and only if the group has
\* exactly one Dividends record and exactly one Withholding Tax record; there is
\* then one such event, made of these two; every other record, and every record
\* when there is no pair, is a single event under its own type.
C4_PairIffExactlyOneOfEach ==
    pc = "returned" =>
        /\ (PairsIn(ret) # {})
               <=> (/\ CountOfType(arg, "Dividends") = 1
                    /\ CountOfType(arg, "Withholding Tax") = 1)
        /\ Cardinality(PairsIn(ret)) <= 1
        /\ \A e \in PairsIn(ret) :
               /\ ret[e].dividend.type = "Dividends"
               /\ ret[e].tax.type = "Withholding Tax"
        /\ \A e \in DOMAIN ret \ PairsIn(ret) :
               ret[e].type = ret[e].transaction.type
        /\ PairsIn(ret) = {} =>
               /\ Len(ret) = Len(arg)
               /\ \A i \in DOMAIN arg :
                      \E e \in DOMAIN ret : ret[e] = Single(arg[i].type, arg[i])

\* several dividends and one withholding tax: no pair
C4_Witness ==
    /\ pc = "returned"
    /\ CountOfType(arg, "Dividends") >= 2
    /\ CountOfType(arg, "Withholding Tax") = 1
    /\ PairsIn(ret) = {}
    /\ Len(ret) = Len(arg)

----------------------------------------------------------------------------
(* Properties of a run (Spec, SpecCash) *)

TradeOf(ref) == statement.Trades[ref[2]]
CashOf(ref) == statement.CashTransactions[ref[2]]
IsTradeRef(ref) == ref[1] = "trade"
IsCashRef(ref) == ref[1] = "cash"

\* the records the printed parts are about
PrintedRefs == UNION {Range(out[i].recs) : i \in DOMAIN out}
Headers == SelectSeq(out, LAMBDA p : p.part = "header")
HeaderRefs == UNION {Range(Headers[i].recs) : i \in DOMAIN Headers}
HeadersAbout(ref) == {i \in DOMAIN Headers : ref \in Range(Headers[i].recs)}

DayOf(s) == s[1]
Dots(symbol) == Cardinality({i \in DOMAIN symbol : symbol[i] = "."})
Malformed(trade) == trade.assetCategory = "CASH" /\ Dots(trade.symbol) # 1
Unknown(trade) == trade.assetCategory \notin {"CASH", "STK"}
Printable(trade) == ~Malformed(trade) /\ ~Unknown(trade)
TradeRetained(trade) == fromisoformat(trade.tradeDate) > latest_transaction_date
CashRetained(rec) == fromisoformat(rec.dateTime) > latest_transaction_date
Suppressed(rec) == ignore_deposits_withdrawals /\ rec.type = "Deposits/Withdrawals"

\* the ledger gave a date: the cutoff of incremental mode
CutoffKnown == new_only /\ pc # "start" /\ ~hledger.raised /\ hledger.rows # <<>>
CutoffDay == DayOf(hledger.rows[Len(hledger.rows)])

\* C1: in incremental mode with cutoff date D nothing is emitted whose source
\* date is on or before D: no trade whose tradeDate is on or before D, no cash
\* event whose group timestamp is on day D, at any time of day, or earlier.
C1_NothingOnOrBeforeCutoff ==
    CutoffKnown =>
        \A ref \in PrintedRefs :
            /\ IsTradeRef(ref) => DayOf(TradeOf(ref).tradeDate) > CutoffDay
            /\ IsCashRef(ref) => DayOf(CashOf(ref).dateTime) > CutoffDay

\* C2: an FX trade whose symbol does not split into two parts is an error of
\* that record only: the run goes on to its end, and every retained trade that
\* can be printed and every retained cash event is emitted.
C2_MalformedFxSkippedRunContinues ==
    (/\ pc \in Terminal
     /\ \E t \in Range(statement.Trades) : Malformed(t) /\ TradeRetained(t))
    => /\ pc = "done"
       /\ \A t \in Range(statement.Trades) :
              (TradeRetained(t) /\ Printable(t)) => TradeRef(t) \in HeaderRefs
       /\ \A c \in Range(statement.CashTransactions) :
              (CashRetained(c) /\ ~Suppressed(c)) => CashRef(c) \in HeaderRefs

\* C10: fx_trade_to_ledger prints nothing for an FX trade whose symbol does not
\* split into two parts: no printed part is about such a trade, and the output
\* never holds a header without its postings.
C10_NoPartialFxTransaction ==
    /\ \A ref \in PrintedRefs : IsTradeRef(ref) => ~Malformed(TradeOf(ref))
    /\ \A i \in DOMAIN out :
           out[i].part = "header" =>
               /\ i < Len(out)
               /\ out[i + 1].part = "postings"
               /\ out[i + 1].recs = out[i].recs

\* the run has stopped on a malformed FX trade, after it printed a transaction
C10_Witness ==
    /\ pc = "raised"
    /\ Malformed(trades[t_idx])
    /\ TradeRetained(trades[t_idx])
    /\ out # <<>>

\* the statement without its trades of unknown category
WithoutUnknown ==
    [statement EXCEPT !.Trades = SelectSeq(@, LAMBDA t : ~Unknown(t))]

\* C8: a retained trade of unknown assetCategory writes nothing to the ledger
\* output and does not stop the run: it is reported on the diagnostic channel,
\* and the run ends as it ends, with the output it has, on the statement
\* without the trades of unknown category.
C8_UnknownCategoryOnlyReported ==
    /\ \A ref \in PrintedRefs : IsTradeRef(ref) => ~Unknown(TradeOf(ref))
    /\ \A k \in 1..(t_idx - 1) :
           (k <= Len(trades) /\ Unknown(trades[k]) /\ TradeRetained(trades[k]))
               => \E e \in DOMAIN err :
                      /\ err[e].msg = "Dropping trade with unknown assetCategory"
                      /\ err[e].about = TradeRef(trades[k])
    /\ pc \in Terminal =>
           LET other == run_to_end(Run(WithoutUnknown, new_only,
                                       ignore_deposits_withdrawals, NotRun), hledger)
           IN  out = other.out /\ pc = other.pc

\* a retained trade of unknown category, a later trade and a cash event emitted
C8_Witness ==
    /\ pc = "done"
    /\ \E k \in DOMAIN trades :
           /\ Unknown(trades[k]) /\ TradeRetained(trades[k])
           /\ \E l \in DOMAIN trades : l > k /\ TradeRef(trades[l]) \in HeaderRefs
    /\ \E ref \in HeaderRefs : IsCashRef(ref)

HledgerFailed == new_only /\ pc # "start" /\ (hledger.raised \/ hledger.rows = <<>>)

\* C9: in incremental mode, when the ledger inspection fails or gives no row,
\* the date is the minimum date and the run goes on: it ends as the run with
\* incremental mode off ends, with the same output.
C9_FailedInspectionKeepsEverything ==
    HledgerFailed =>
        /\ latest_transaction_date = datetime_min
        /\ pc # "raised" \/ (t_idx <= Len(trades) /\ Malformed(trades[t_idx]))
        /\ pc \in Terminal =>
               LET off == run_to_end(Run(statement, FALSE,
                                         ignore_deposits_withdrawals, NotRun), NotRun)
               IN  out = off.out /\ pc = off.pc

\* the inspection raised, and the run printed a trade and a cash event
C9_Witness ==
    /\ pc = "done"
    /\ new_only
    /\ hledger.raised
    /\ \E ref \in HeaderRefs : IsTradeRef(ref)
    /\ \E ref \in HeaderRefs : IsCashRef(ref)

\* C6: with the flag set no Deposits/Withdrawals transaction is printed, however
\* many there are, and every other record of every retained group the loop has
\* passed is printed once, be it in the group of a deposit or in a later one.
C6_DepositsWithdrawalsSuppressed ==
    ignore_deposits_withdrawals =>
        /\ \A i \in DOMAIN out : out[i].tx # "Deposits/Withdrawals"
        /\ \A ref \in PrintedRefs :
               IsCashRef(ref) => CashOf(ref).type # "Deposits/Withdrawals"
        /\ \A g \in 1..(c_idx - 1) :
               \A k \in DOMAIN cash_transactions[g].value :
                   LET rec == cash_transactions[g].value[k]
                   IN  (CashRetained(rec) /\ rec.type # "Deposits/Withdrawals")
                           => Cardinality(HeadersAbout(CashRef(rec))) = 1
        /\ pc = "done" =>
               \A c \in Range(statement.CashTransactions) :
                   (CashRetained(c) /\ c.type # "Deposits/Withdrawals")
                       => Cardinality(HeadersAbout(CashRef(c))) = 1

\* two deposits beside another record in one group, and a later group
C6_Witness ==
    /\ pc = "done"
    /\ ignore_deposits_withdrawals
    /\ Len(cash_transactions) >= 2
    /\ \E k \in DOMAIN cash_transactions[1].value :
           cash_transactions[1].value[k].type = "Deposits/Withdrawals"
    /\ \E k \in DOMAIN cash_transactions[1].value :
           CashRef(cash_transactions[1].value[k]) \in HeaderRefs
    /\ \E k \in DOMAIN cash_transactions[2].value :
           CashRef(cash_transactions[2].value[k]) \in HeaderRefs

\* the first record of a printed header, and its place in the input
FirstRec(h) == IF IsTradeRef(h.recs[1]) THEN TradeOf(h.recs[1]) ELSE CashOf(h.recs[1])
IsTradeHeader(h) == IsTradeRef(h.recs[1])
IsCashHeader(h) == IsCashRef(h.recs[1])
MinId(h) == CHOOSE m \in {r[2] : r \in Range(h.recs)} :
                \A r \in Range(h.recs) : m <= r[2]
Ticks(h) == fromisoformat(FirstRec(h).dateTime)

\* C7, as the claim has it: trades before cash events, trades in ascending order
\* of their timestamp, cash events in ascending order of their group's
\* timestamp, the input order kept among equal timestamps.
C7_OrderWithInputOrderAmongEquals ==
    \A i, j \in DOMAIN Headers :
        i < j =>
            /\ ~(IsCashHeader(Headers[i]) /\ IsTradeHeader(Headers[j]))
            /\ (IsTradeHeader(Headers[i]) = IsTradeHeader(Headers[j])) =>
                   \/ Ticks(Headers[i]) < Ticks(Headers[j])
                   \/ /\ Ticks(Headers[i]) = Ticks(Headers[j])
                      /\ MinId(Headers[i]) < MinId(Headers[j])

\* the first place in the input of a record of the same group, of the same
\* group and type
GroupFirstId(rec) ==
    CHOOSE m \in DOMAIN statement.CashTransactions :
        /\ KeyOf(statement.CashTransactions[m]) = KeyOf(rec)
        /\ \A n \in 1..(m - 1) : KeyOf(statement.CashTransactions[n]) # KeyOf(rec)
TypeFirstId(rec) ==
    CHOOSE m \in DOMAIN statement.CashTransactions :
        /\ KeyOf(statement.CashTransactions[m]) = KeyOf(rec)
        /\ statement.CashTransactions[m].type = rec.type
        /\ \A n \in 1..(m - 1) :
               \/ KeyOf(statement.CashTransactions[n]) # KeyOf(rec)
               \/ statement.CashTransactions[n].type # rec.type

\* the place of a cash event in the output: its group's timestamp, the first
\* appearance of its group, the pair before the singles, the first appearance
\* of its type in the group, its own place in the input
CashRank(h) ==
    <<Ticks(h), GroupFirstId(FirstRec(h)),
      IF h.tx = "dividend_with_withholding" THEN 0 ELSE 1,
      TypeFirstId(FirstRec(h)), FirstRec(h).id>>
TradeRank(h) == <<Ticks(h), FirstRec(h).id>>

RankLess(a, b) ==
    \E k \in DOMAIN a :
        /\ \A n \in 1..(k - 1) : a[n] = b[n]
        /\ a[k] < b[k]

\* C7, amended: trades before cash events; trades in ascending order of their
\* timestamp, input order among equal timestamps; cash events group by group,
\* the groups in ascending order of their timestamp and, among equal
\* timestamps, of their first appearance in the input; in a group the
\* dividend with its withholding first, then the other records type by type in
\* the order the types first appear, input order inside a type.
C7_OrderGroupByGroup ==
    \A i, j \in DOMAIN Headers :
        i < j =>
            /\ ~(IsCashHeader(Headers[i]) /\ IsTradeHeader(Headers[j]))
            /\ (IsTradeHeader(Headers[i]) /\ IsTradeHeader(Headers[j])) =>
                   RankLess(TradeRank(Headers[i]), TradeRank(Headers[j]))
            /\ (IsCashHeader(Headers[i]) /\ IsCashHeader(Headers[j])) =>
                   RankLess(CashRank(Headers[i]), CashRank(Headers[j]))

\* a pair printed before an earlier record of its group
C7_Witness ==
    /\ pc = "done"
    /\ \E i, j \in DOMAIN Headers :
           /\ i < j
           /\ Headers[i].tx = "dividend_with_withholding"
           /\ IsCashHeader(Headers[j])
           /\ KeyOf(FirstRec(Headers[i])) = KeyOf(FirstRec(Headers[j]))
           /\ MinId(Headers[j]) < MinId(Headers[i])

====
